---- MODULE Spec2Model ----
(***************************************************************************)
(* The todo store of src/fastapi-app/main.py: a JSON file that every       *)
(* handler loads in full, changes in memory and writes back in full.       *)
(*                                                                         *)
(* The file is a sequence of tokens of its JSON text.  A todo with a       *)
(* title of n characters takes n + 3 tokens, so two collections differ in  *)
(* length when they differ in the number of items or in a title, as the    *)
(* bytes of the real file do.                                              *)
(*                                                                         *)
(* Optional values (Optional[...] in the code) are sequences: None is the  *)
(* empty sequence and a present value x is <<x>>.  A timestamp is the      *)
(* reading of the clock `now`, which only moves forward.                   *)
(***************************************************************************)
EXTENDS Integers, Sequences, FiniteSets, TLC

VARIABLES
    file,       \* content of TODO_FILE: a sequence of tokens
    now,        \* the clock read by datetime.now(timezone.utc)
    resp,       \* the response to the latest request
    assigned,   \* history: the ids handed out by create_todo, in call order
    onlyCreates,\* history: TRUE while no update or delete has succeeded
    pc,         \* per worker thread: where its handler stands
    req,        \* per worker thread: the request it is handling
    loc,        \* per worker thread: the list its load_todos returned
    out,        \* per worker thread: the list it passed to save_todos
    committed,  \* history: the list of the latest save_todos that returned
    race,       \* history: two saves whose loads both came before either
    exists,     \* TODO_FILE.exists()
    listing     \* the outcome of the latest response when it is a list of todos

\* the variables only the interleaved handlers use
conc == <<pc, req, loc, out, committed, race>>

vars == <<file, now, resp, assigned, onlyCreates, pc, req, loc, out, committed, race,
          exists, listing>>

\* ------------------------------------------------------------------ bounds

\* successful create_todo calls in one run
MaxCreates == 2
\* last reading of the clock
MaxClock == 2
\* tokens of a text found in TODO_FILE that the handlers did not write
MaxText == 5

\* ------------------------------------------------------------------ values

None == <<>>
Some(x) == <<x>>

\* Field(ge=1, le=9) of TodoCreate.group, TodoUpdate.group, TodoItem.group
GroupMin == 1
GroupMax == 9

\* titles, as sequences of characters
Titles == {<<"A">>, <<"B", "B">>}
\* group values a request may carry: two valid ones and the two nearest invalid
GroupInputs == {GroupMin - 1, GroupMin, GroupMax, GroupMax + 1}
\* ids a request may name: every id create_todo can hand out, and one more
IdInputs == 1 .. (MaxCreates + 1)

\* ------------------------------------------------------------ the JSON file

\* the fields of a todo other than its title (the title is spelled out in
\* character tokens after them)
Fields(todo) ==
    [id |-> todo.id, description |-> todo.description,
     created_at |-> todo.created_at, completed |-> todo.completed,
     completed_at |-> todo.completed_at, group |-> todo.group]

\* the tokens of the text: brackets and braces, a number ("1"), a byte that
\* is not UTF-8 ("x"), the fields of an item, one character of a title
Punct(k) == [k |-> k]
FieldsTok(todo) == [k |-> "h", h |-> Fields(todo)]
CharTok(ch) == [k |-> "c", c |-> ch]

\* json.dump of one dict
DumpItem(todo) ==
    <<Punct("{"), FieldsTok(todo)>>
    \o [i \in 1 .. Len(todo.title) |-> CharTok(todo.title[i])]
    \o <<Punct("}")>>

RECURSIVE DumpItems(_)
DumpItems(todos) ==
    IF todos = <<>> THEN <<>>
    ELSE DumpItem(Head(todos)) \o DumpItems(Tail(todos))

\* json.dump(todos, file): the text of a list of dicts
json_dump(todos) == <<Punct("[")>> \o DumpItems(todos) \o <<Punct("]")>>

\* the dict a head token and the title characters after it spell
MkItem(h, title) ==
    [id |-> h.id, title |-> title, description |-> h.description,
     created_at |-> h.created_at, completed |-> h.completed,
     completed_at |-> h.completed_at, group |-> h.group]

\* what json.load does with a text: it returns the value `data`, or raises
\* `err`
Parsed(data) == [ok |-> TRUE, err |-> "", data |-> data]
JSONDecodeError == [ok |-> FALSE, err |-> "JSONDecodeError", data |-> <<>>]
UnicodeDecodeError == [ok |-> FALSE, err |-> "UnicodeDecodeError", data |-> <<>>]

\* the values of a text other than the dict of a todo: a number, a dict with
\* no key, a list
Scalar == [scalar |-> 1]
EmptyDict == [dict |-> <<>>]
List(elems) == [list |-> elems]

\* the first position at or after i that holds no title character
RECURSIVE TitleEnd(_, _)
TitleEnd(f, i) ==
    IF i > Len(f) \/ f[i].k # "c" THEN i ELSE TitleEnd(f, i + 1)

\* the decoder at position i: the value that starts there and the position
\* after it, or no value
NoValue == [ok |-> FALSE, val |-> <<>>, next |-> 0]
Value(val, next) == [ok |-> TRUE, val |-> val, next |-> next]

RECURSIVE ParseValue(_, _), ParseItems(_, _, _)
ParseValue(f, i) ==
    IF i > Len(f) THEN NoValue
    ELSE IF f[i].k = "1" THEN Value(Scalar, i + 1)
    ELSE IF f[i].k = "[" THEN ParseItems(f, i + 1, <<>>)
    ELSE IF f[i].k = "{" /\ i + 1 <= Len(f) /\ f[i + 1].k = "}"
         THEN Value(EmptyDict, i + 2)
    ELSE IF f[i].k = "{" /\ i + 1 <= Len(f) /\ f[i + 1].k = "h"
         THEN LET j == TitleEnd(f, i + 2)
              IN  IF j <= Len(f) /\ f[j].k = "}"
                  THEN Value(MkItem(f[i + 1].h,
                                 [n \in 1 .. (j - i - 2) |-> f[i + 1 + n].c]),
                             j + 1)
                  ELSE NoValue
    ELSE NoValue

\* the elements of a list from position i on, up to its closing bracket
ParseItems(f, i, acc) ==
    IF i > Len(f) THEN NoValue
    ELSE IF f[i].k = "]" THEN Value(List(acc), i + 1)
    ELSE LET r == ParseValue(f, i)
         IN  IF r.ok THEN ParseItems(f, r.next, Append(acc, r.val)) ELSE NoValue

\* json.load(file): file.read() decodes the whole text as UTF-8, then the
\* text is decoded as one JSON value; text after the value ("Extra data")
\* and text that ends early are decode errors
json_load(f) ==
    IF \E i \in 1 .. Len(f) : f[i].k = "x" THEN UnicodeDecodeError
    ELSE LET r == ParseValue(f, 1)
         IN  IF r.ok /\ r.next = Len(f) + 1 THEN Parsed(r.val) ELSE JSONDecodeError

\* isinstance(data, list)
isinstance_list(data) == "list" \in DOMAIN data

\* the exception that escapes load_todos on a text f: only JSONDecodeError
\* is caught
load_raises(f) ==
    LET r == json_load(f) IN IF r.err = "UnicodeDecodeError" THEN r.err ELSE ""

\* what load_todos returns on a text f, when it returns
load_from(f) ==
    LET r == json_load(f)
    IN  IF r.ok /\ isinstance_list(r.data) THEN r.data.list ELSE <<>>

\* load_todos: TODO_FILE.exists() first
load_todos == IF exists THEN load_from(file) ELSE <<>>

\* save_todos run with no other request in between (open, dump, close): the
\* text the file holds afterwards
save_todos(todos) == json_dump(todos)

\* the texts TODO_FILE may hold when something else than save_todos wrote it:
\* every sequence of these tokens, whether it is JSON or not
TextTokens ==
    {Punct("["), Punct("]"), Punct("{"), Punct("}"), Punct("1"), Punct("x"),
     CharTok("A"),
     FieldsTok([id |-> 1, description |-> None, created_at |-> 1,
                completed |-> FALSE, completed_at |-> None, group |-> 1])}

Texts == UNION {[1 .. n -> TextTokens] : n \in 0 .. MaxText}

\* a value that validates as a TodoItem
IsTodoItem(v) ==
    DOMAIN v = {"id", "title", "description", "created_at", "completed",
                "completed_at", "group"}

\* ------------------------------------------------------------------ helpers

RECURSIVE MaxId(_)
MaxId(todos) ==
    IF todos = <<>> THEN 0
    ELSE LET m == MaxId(Tail(todos))
         IN  IF Head(todos).id > m THEN Head(todos).id ELSE m

\* max without the + 1
next_id_no_increment(todos) == IF todos # <<>> THEN MaxId(todos) ELSE 1

next_id(todos) == IF todos # <<>> THEN MaxId(todos) + 1 ELSE 1

\* `<` where the code has `!=`: the items after the deleted one go too
Without_less(todos, todo_id) ==
    SelectSeq(todos, LAMBDA todo : todo.id < todo_id)

\* [todo for todo in todos if todo.get("id") != todo_id]
RECURSIVE Without(_, _)
Without(todos, todo_id) ==
    IF todos = <<>> THEN <<>>
    ELSE IF Head(todos).id # todo_id
         THEN <<Head(todos)>> \o Without(Tail(todos), todo_id)
         ELSE Without(Tail(todos), todo_id)

\* for i, todo in enumerate(todos): if todo.get("id") == todo_id: the index
\* the loops of update_todo and get_todo stop at, 0 when they run to the end
RECURSIVE FirstIndexFrom(_, _, _)
FirstIndexFrom(todos, todo_id, i) ==
    IF i > Len(todos) THEN 0
    ELSE IF todos[i].id = todo_id THEN i
    ELSE FirstIndexFrom(todos, todo_id, i + 1)

FirstIndex(todos, todo_id) == FirstIndexFrom(todos, todo_id, 1)

\* ---------------------------------------------------------------- requests

\* bodies of POST /todos (TodoCreate); an absent field is None
Body(t, d, g) == [title |-> t, description |-> d, group |-> g]

\* every title, with and without a description, the group absent, valid or
\* out of range
CreateBodies ==
    {Body(t, d, g) : t \in Titles, d \in {None, Some("d")},
                     g \in {None} \cup {Some(x) : x \in GroupInputs}}

\* the bodies that leave description and group at their defaults, or are
\* rejected for their group
CoreBodies ==
    {b \in CreateBodies :
        b.description = None /\ (b.group = None \/ b.group[1] \notin {GroupMin, GroupMax})}

\* bodies of PUT /todos/{id} (TodoUpdate); an absent field is None
Patch(t, d, c, g) == [title |-> t, description |-> d, completed |-> c, group |-> g]

\* the empty patch, every patch of one field, and patches of several fields
Patches ==
    {Patch(None, None, None, None)}
    \cup {Patch(Some(t), None, None, None) : t \in Titles}
    \cup {Patch(None, Some("d"), None, None)}
    \cup {Patch(None, None, Some(c), None) : c \in BOOLEAN}
    \cup {Patch(None, None, None, Some(g)) : g \in GroupInputs}
    \cup {Patch(Some(<<"B", "B">>), None, Some(c), None) : c \in BOOLEAN}
    \cup {Patch(None, Some("d"), Some(TRUE), Some(g)) : g \in {GroupMax, GroupMax + 1}}

\* the patches that leave description and group alone, or are rejected for
\* their group
CorePatches ==
    {p \in Patches :
        p.description = None /\ (p.group = None \/ p.group[1] \notin {GroupMin, GroupMax})}

\* le one too large
GroupOk_le10(g) == g = None \/ (g[1] >= GroupMin /\ g[1] <= GroupMax + 1)

\* Field(ge=1, le=9): pydantic rejects the body (422) before the handler runs
GroupOk(g) == g = None \/ (g[1] >= GroupMin /\ g[1] <= GroupMax)

\* TodoCreate.group: the default 1 when absent; then `todo.group or 1`
CreateGroup(g) ==
    LET v == IF g = None THEN 1 ELSE g[1] IN IF v = 0 THEN 1 ELSE v

Response(op, status) == [op |-> op, status |-> status]

\* the outcome of a handler that returns a list of todos: the exception that
\* escaped it ("" when it returned) and the list it returned
Listing(error, todos) == [error |-> error, todos |-> todos]
NoListing == Listing("", <<>>)

\* ------------------------------------------------------------------ create

\* the item create_todo builds from the loaded list and the body
NewItem(todos, todo) ==
    [id |-> next_id(todos), title |-> todo.title,
     description |-> todo.description, created_at |-> now,
     completed |-> FALSE, completed_at |-> None,
     group |-> CreateGroup(todo.group)]

\* insert at the front instead of append
created_in_front(todos, todo) == <<NewItem(todos, todo)>> \o todos

\* todos.append(item.model_dump())
created(todos, todo) == Append(todos, NewItem(todos, todo))

\* 422 from the validation of the body, else the handler runs and returns
create_status(todo) == IF ~GroupOk(todo.group) THEN 422 ELSE 200

create_todo(todo) ==
    LET todos == load_todos
        status == create_status(todo)
    IN  /\ resp' = Response("create", status)
        /\ IF status = 200
           THEN /\ Len(assigned) < MaxCreates
                /\ file' = save_todos(created(todos, todo))
                /\ assigned' = Append(assigned, next_id(todos))
           ELSE UNCHANGED <<file, assigned>>
        /\ listing' = NoListing
        /\ UNCHANGED <<now, onlyCreates, conc, exists>>

\* ------------------------------------------------------------------ update

\* every field of the patch written, absent or not
_apply_simple_fields_all(todo, patch) ==
    [todo EXCEPT
        !.title = IF patch.title # None THEN patch.title[1] ELSE @,
        !.description = patch.description,
        !.group = IF patch.group # None THEN patch.group[1] ELSE @]

_apply_simple_fields(todo, patch) ==
    [todo EXCEPT
        !.title = IF patch.title # None THEN patch.title[1] ELSE @,
        !.description = IF patch.description # None THEN patch.description ELSE @,
        !.group = IF patch.group # None THEN patch.group[1] ELSE @]

\* the timestamp left as it is when the item is marked incomplete
_update_completed_status_stale(todo, new_completed) ==
    [todo EXCEPT
        !.completed = new_completed,
        !.completed_at = IF new_completed /\ ~todo.completed THEN Some(now) ELSE @]

\* the timestamp set on every update that carries completed = true
_update_completed_status_restamp(todo, new_completed) ==
    [todo EXCEPT
        !.completed = new_completed,
        !.completed_at = IF new_completed THEN Some(now) ELSE None]

_update_completed_status(todo, new_completed) ==
    LET prev_completed == todo.completed
    IN  [todo EXCEPT
            !.completed = new_completed,
            !.completed_at =
                IF new_completed /\ ~prev_completed THEN Some(now)
                ELSE IF ~new_completed THEN None
                ELSE @]

\* the item update_todo stores for `todo` under `patch`
Patched(todo, patch) ==
    LET simple == _apply_simple_fields(todo, patch)
    IN  IF patch.completed # None
        THEN _update_completed_status(simple, patch.completed[1])
        ELSE simple

\* todos[i] = todo
updated(todos, i, patch) == [todos EXCEPT ![i] = Patched(todos[i], patch)]

\* 422 from the validation of the body, 404 when the loop finds no item
update_status(todos, todo_id, patch) ==
    IF ~GroupOk(patch.group) THEN 422
    ELSE IF FirstIndex(todos, todo_id) = 0 THEN 404
    ELSE 200

update_todo(todo_id, patch) ==
    LET todos == load_todos
        status == update_status(todos, todo_id, patch)
    IN  /\ resp' = Response("update", status)
        /\ IF status = 200
           THEN /\ file' = save_todos(updated(todos, FirstIndex(todos, todo_id), patch))
                /\ onlyCreates' = FALSE
           ELSE UNCHANGED <<file, onlyCreates>>
        /\ listing' = NoListing
        /\ UNCHANGED <<now, assigned, conc, exists>>

\* ------------------------------------------------------------------ delete

\* 404 when the filtered list is as long as the loaded one
delete_status(todos, todo_id) ==
    IF Len(Without(todos, todo_id)) = Len(todos) THEN 404 ELSE 200

delete_todo(todo_id) ==
    LET todos == load_todos
        status == delete_status(todos, todo_id)
    IN  /\ resp' = Response("delete", status)
        /\ IF status = 200
           THEN /\ file' = save_todos(Without(todos, todo_id))
                /\ onlyCreates' = FALSE
           ELSE UNCHANGED <<file, onlyCreates>>
        /\ listing' = NoListing
        /\ UNCHANGED <<now, assigned, conc, exists>>

\* --------------------------------------------------------------------- get

\* the status get_todo answers with on a loaded list
get_status(todos, todo_id) == IF FirstIndex(todos, todo_id) # 0 THEN 200 ELSE 404

get_todo(todo_id) ==
    /\ resp' = Response("get", get_status(load_todos, todo_id))
    /\ listing' = NoListing
    /\ UNCHANGED <<file, now, assigned, onlyCreates, conc, exists>>

\* ------------------------------------------------------------------- list

\* GET /todos returns load_todos(); the response is validated as
\* List[TodoItem], and an exception or a failed validation is a 500
get_todos ==
    LET error == IF exists THEN load_raises(file) ELSE ""
        todos == IF error = "" THEN load_todos ELSE <<>>
        valid == \A i \in 1 .. Len(todos) : IsTodoItem(todos[i])
    IN  /\ listing' = Listing(error, todos)
        /\ resp' = Response("list", IF error = "" /\ valid THEN 200 ELSE 500)
        /\ UNCHANGED <<file, now, assigned, onlyCreates, conc, exists>>

\* ---------------------------------------------------------- filter by group

\* `>=` where the code has `==`
filtered_ge(todos, group_id) ==
    SelectSeq(todos, LAMBDA todo : todo.group >= group_id)

\* [todo for todo in todos if todo.get("group") == group_id]
RECURSIVE filtered(_, _)
filtered(todos, group_id) ==
    IF todos = <<>> THEN <<>>
    ELSE IF Head(todos).group = group_id
         THEN <<Head(todos)>> \o filtered(Tail(todos), group_id)
         ELSE filtered(Tail(todos), group_id)

\* 400 when group_id < 1 or group_id > 9, before the store is loaded
by_group_status(group_id) ==
    IF group_id < GroupMin \/ group_id > GroupMax THEN 400 ELSE 200

get_todos_by_group(group_id) ==
    LET status == by_group_status(group_id)
    IN  /\ resp' = Response("group", status)
        /\ listing' = IF status = 200
                       THEN Listing("", filtered(load_todos, group_id))
                       ELSE NoListing
        /\ UNCHANGED <<file, now, assigned, onlyCreates, conc, exists>>

\* -------------------------------------------------------------------- sort

valid_sort_fields == {"id", "title", "created_at", "completed", "completed_at", "group"}
valid_orders == {"asc", "desc"}

\* a str is the sequence of its code points
Ord(ch) == CASE ch = "A" -> 65 [] ch = "B" -> 66 [] OTHER -> 100
Str(chars) == [i \in 1 .. Len(chars) |-> Ord(chars[i])]
\* datetime.isoformat() of the clock reading n: later readings give greater
\* strings
isoformat(n) == <<48 + n>>
\* the two values sort_key puts in the place of None: "" and "\uffff"
EmptyStr == <<>>
UFFFF == <<65535>>

\* the keys the sort compares, with their Python types (a bool is an int)
StrKey(v) == [type |-> "str", v |-> v]
IntKey(v) == [type |-> "int", v |-> v]
NoneKey == [type |-> "NoneType", v |-> 0]

\* todo.get(sort_by)
get_value(todo, sort_by) ==
    CASE sort_by = "id" -> IntKey(todo.id)
      [] sort_by = "title" -> StrKey(Str(todo.title))
      [] sort_by = "created_at" -> StrKey(isoformat(todo.created_at))
      [] sort_by = "completed" -> IntKey(IF todo.completed THEN 1 ELSE 0)
      [] sort_by = "completed_at" ->
            IF todo.completed_at = None THEN NoneKey
            ELSE StrKey(isoformat(todo.completed_at[1]))
      [] OTHER -> IntKey(todo.group)

\* None left as it is
sort_key_none(todo, sort_by, reverse) == get_value(todo, sort_by)

sort_key(todo, sort_by, reverse) ==
    LET value == get_value(todo, sort_by)
    IN  IF value.type = "NoneType"
        THEN (IF ~reverse THEN StrKey(EmptyStr) ELSE StrKey(UFFFF))
        ELSE value

\* a < b on two strs
RECURSIVE StrLess(_, _)
StrLess(a, b) ==
    IF b = <<>> THEN FALSE
    ELSE IF a = <<>> THEN TRUE
    ELSE IF Head(a) # Head(b) THEN Head(a) < Head(b)
    ELSE StrLess(Tail(a), Tail(b))

\* a < b raises TypeError unless both are ints or both are strs
Comparable(a, b) == a.type = b.type /\ a.type # "NoneType"
Less(a, b) == IF a.type = "int" THEN a.v < b.v ELSE StrLess(a.v, b.v)

\* one step of a stable sort: x goes behind every element it is not to
\* come before
RECURSIVE Insert(_, _, _)
Insert(acc, x, reverse) ==
    IF acc = <<>> THEN <<x>>
    ELSE IF (IF reverse THEN Less(Head(acc).key, x.key) ELSE Less(x.key, Head(acc).key))
         THEN <<x>> \o acc
         ELSE <<Head(acc)>> \o Insert(Tail(acc), x, reverse)

RECURSIVE StableSort(_, _, _)
StableSort(keyed, acc, reverse) ==
    IF keyed = <<>> THEN acc
    ELSE StableSort(Tail(keyed), Insert(acc, Head(keyed), reverse), reverse)

\* sorted(todos, key=sort_key, reverse=reverse): TypeError when two keys
\* cannot be compared, else the todos in the order of their keys, equal keys
\* in their order in todos
sorted_todos(todos, sort_by, reverse) ==
    LET keyed == [i \in 1 .. Len(todos) |->
                    [key |-> sort_key(todos[i], sort_by, reverse), todo |-> todos[i]]]
        ordered == StableSort(keyed, <<>>, reverse)
    IN  IF \E i, j \in 1 .. Len(keyed) : i # j /\ ~Comparable(keyed[i].key, keyed[j].key)
        THEN Listing("TypeError", <<>>)
        ELSE Listing("", [i \in 1 .. Len(ordered) |-> ordered[i].todo])

\* 400 for a sort_by or an order that is not valid
sorted_status(sort_by, order) ==
    IF sort_by \notin valid_sort_fields \/ order \notin valid_orders THEN 400 ELSE 200

get_sorted_todos(sort_by, order) ==
    LET status == sorted_status(sort_by, order)
        result == sorted_todos(load_todos, sort_by, order = "desc")
    IN  /\ listing' = IF status = 200 THEN result ELSE NoListing
        /\ resp' = Response("sorted", IF status = 200 /\ result.error # "" THEN 500 ELSE status)
        /\ UNCHANGED <<file, now, assigned, onlyCreates, conc, exists>>

\* ------------------------------------------------------------------- clock

Tick ==
    /\ now < MaxClock
    /\ now' = now + 1
    /\ UNCHANGED <<file, resp, assigned, onlyCreates, conc, exists, listing>>

\* ---------------------------------------------------------- state at start

\* the threads of the pool that runs the handlers (they are plain `def`s, so
\* two requests are handled by two threads at once)
Workers == {1, 2}
Other(w) == CHOOSE v \in Workers : v # w

Req(op, id, body, patch) == [op |-> op, id |-> id, body |-> body, patch |-> patch]
NoRequest == Req("none", 0, Body(<<>>, None, None), Patch(None, None, None, None))
NoRace == [first |-> 0, second |-> 0, done |-> <<>>]

\* import of the module: TODO_FILE is overwritten with []
Init ==
    /\ file = json_dump(<<>>)
    /\ now = 1
    /\ resp = Response("none", 0)
    /\ assigned = <<>>
    /\ onlyCreates = TRUE
    /\ pc = [w \in Workers |-> "idle"]
    /\ req = [w \in Workers |-> NoRequest]
    /\ loc = [w \in Workers |-> <<>>]
    /\ out = [w \in Workers |-> <<>>]
    /\ committed = <<>>
    /\ race = NoRace
    /\ exists = TRUE
    /\ listing = NoListing

\* ------------------------------------------------- requests one at a time

Create(bodies) == \E todo \in bodies : create_todo(todo)
Update(patches) == \E todo_id \in IdInputs, patch \in patches : update_todo(todo_id, patch)
Delete == \E todo_id \in IdInputs : delete_todo(todo_id)
Get == \E todo_id \in IdInputs : get_todo(todo_id)

\* requests that vary the title and the completion of the items, while the
\* clock moves
Next == Create(CoreBodies) \/ Update(CorePatches) \/ Delete \/ Get \/ Tick

Spec == Init /\ [][Next]_vars

\* requests that vary every field of the items, within one reading of the
\* clock
NextFields == Create(CreateBodies) \/ Update(Patches) \/ Delete \/ Get

SpecFields == Init /\ [][NextFields]_vars

\* ------------------------------------------------ requests that list

\* the groups GET /todos/group/{group_id} is asked for
GroupIdInputs == GroupInputs
\* the fields and orders GET /todos/sorted is asked for: the valid ones and
\* one that is not
SortByInputs == valid_sort_fields \cup {"description"}
OrderInputs == valid_orders \cup {"up"}

\* bodies and patches that vary the title, the group and the completion of
\* the items
ListBodies ==
    {Body(<<"B", "B">>, None, None), Body(<<"A">>, None, Some(GroupMax))}
ListPatches ==
    {Patch(None, None, Some(c), None) : c \in BOOLEAN}

ByGroup == \E group_id \in GroupIdInputs : get_todos_by_group(group_id)
Sorted == \E sort_by \in SortByInputs, order \in OrderInputs : get_sorted_todos(sort_by, order)

NextLists ==
    Create(ListBodies) \/ Update(ListPatches) \/ Delete \/ ByGroup \/ Sorted \/ Tick

SpecLists == Init /\ [][NextLists]_vars

\* ------------------------------------------ a store the handlers find

\* TODO_FILE as load_todos may find it: absent, or holding any text
InitLoad ==
    /\ file \in Texts
    /\ exists \in BOOLEAN
    /\ now = 1
    /\ resp = Response("none", 0)
    /\ assigned = <<>>
    /\ onlyCreates = TRUE
    /\ pc = [w \in Workers |-> "idle"]
    /\ req = [w \in Workers |-> NoRequest]
    /\ loc = [w \in Workers |-> <<>>]
    /\ out = [w \in Workers |-> <<>>]
    /\ committed = <<>>
    /\ race = NoRace
    /\ listing = NoListing

GetTodos == get_todos

NextLoad == GetTodos

SpecLoad == InitLoad /\ [][NextLoad]_vars

\* --------------------------------------------- handlers that interleave

\* the requests the interleaved handlers serve
ConcRequests ==
    {Req("create", 0, Body(t, None, None), NoRequest.patch) : t \in Titles}
    \cup {Req("update", 1, NoRequest.body, Patch(None, None, Some(TRUE), None))}
    \cup {Req("delete", 1, NoRequest.body, NoRequest.patch)}
    \cup {Req("get", 1, NoRequest.body, NoRequest.patch)}

\* whether the handler of request r, having loaded todos, calls save_todos
Saves(r, todos) ==
    CASE r.op = "create" -> TRUE
      [] r.op = "update" -> update_status(todos, r.id, r.patch) = 200
      [] r.op = "delete" -> delete_status(todos, r.id) = 200
      [] OTHER -> FALSE

\* the list it passes to save_todos
ToSave(r, todos) ==
    CASE r.op = "create" -> created(todos, r.body)
      [] r.op = "update" -> updated(todos, FirstIndex(todos, r.id), r.patch)
      [] OTHER -> Without(todos, r.id)

\* close() of a file opened with "w": the buffered text goes to the start of
\* the file (the position of this handle), over what the file holds by then
written(f, text) == text \o SubSeq(f, Len(text) + 1, Len(f))

CreatesStarted ==
    Len(assigned) + Cardinality({v \in Workers : pc[v] = "loaded" /\ req[v].op = "create"})

\* a handler starts and runs load_todos: json.load reads the whole file at once
Load(w, r) ==
    /\ pc[w] = "idle"
    /\ r.op = "create" => CreatesStarted < MaxCreates
    /\ pc' = [pc EXCEPT ![w] = "loaded"]
    /\ req' = [req EXCEPT ![w] = r]
    /\ loc' = [loc EXCEPT ![w] = load_todos]
    /\ UNCHANGED <<file, now, resp, assigned, onlyCreates, out, committed, race,
                   exists, listing>>

\* a handler that has nothing to save answers: get_todo, or a 404
Reply(w) ==
    /\ pc[w] = "loaded"
    /\ ~Saves(req[w], loc[w])
    /\ pc' = [pc EXCEPT ![w] = "idle"]
    /\ resp' = Response(req[w].op, get_status(loc[w], req[w].id))
    /\ race' = IF race.first = Other(w) /\ race.second = 0 THEN NoRace ELSE race
    /\ listing' = NoListing
    /\ UNCHANGED <<file, now, assigned, onlyCreates, req, loc, out, committed, exists>>

\* save_todos, line 102: open(TODO_FILE, "w") truncates the file
Open(w) ==
    /\ pc[w] = "loaded"
    /\ Saves(req[w], loc[w])
    /\ pc' = [pc EXCEPT ![w] = "opened"]
    /\ out' = [out EXCEPT ![w] = ToSave(req[w], loc[w])]
    /\ file' = <<>>
    /\ assigned' = IF req[w].op = "create"
                   THEN Append(assigned, next_id(loc[w])) ELSE assigned
    /\ onlyCreates' = (onlyCreates /\ req[w].op = "create")
    /\ race' = IF race.first = Other(w) /\ race.second = 0
               THEN [race EXCEPT !.second = w]
               ELSE IF pc[Other(w)] = "loaded"
                    THEN [first |-> w, second |-> 0, done |-> <<>>]
                    ELSE NoRace
    /\ UNCHANGED <<now, resp, req, loc, committed, exists, listing>>

\* save_todos, line 103 and the end of the with block: json.dump fills the
\* buffer of the file object and close() writes it out
Close(w) ==
    /\ pc[w] = "opened"
    /\ pc' = [pc EXCEPT ![w] = "idle"]
    /\ file' = written(file, json_dump(out[w]))
    /\ committed' = out[w]
    /\ resp' = Response(req[w].op, 200)
    /\ race' = IF w \in {race.first, race.second}
               THEN [race EXCEPT !.done = Append(@, w)] ELSE race
    /\ listing' = NoListing
    /\ UNCHANGED <<now, assigned, onlyCreates, req, loc, out, exists>>

Start == \E w \in Workers, r \in ConcRequests : Load(w, r)
Answer == \E w \in Workers : Reply(w)
Truncate == \E w \in Workers : Open(w)
Flush == \E w \in Workers : Close(w)

NextConc == Start \/ Answer \/ Truncate \/ Flush \/ Tick

SpecConc == Init /\ [][NextConc]_vars

\* ================================================================ claims

\* the stored collection, as the next handler loads it
Stored == load_todos
StoredNext == load_from(file')

\* the ids of a collection
Ids(todos) == {todos[i].id : i \in 1 .. Len(todos)}

\* a group value outside [1,9]
OutOfRange(g) == g # None /\ (g[1] < 1 \/ g[1] > 9)

\* C1: the id create assigns differs from every id assigned before it,
\* deleted items included
IdsNeverReused ==
    \A i, j \in 1 .. Len(assigned) : i < j => assigned[i] # assigned[j]

\* C2: no two stored items share an id
UniqueIds ==
    \A i, j \in 1 .. Len(Stored) : i # j => Stored[i].id # Stored[j].id

UniqueIdsWitness ==
    /\ Len(Stored) = 2
    /\ ~onlyCreates

\* C3: after n creates and nothing else, the ids assigned are 1..n in call
\* order and the store holds the items in that order
CreatesCountUp ==
    onlyCreates =>
        /\ assigned = [i \in 1 .. Len(assigned) |-> i]
        /\ [i \in 1 .. Len(Stored) |-> Stored[i].id] = assigned

CreatesCountUpWitness ==
    /\ onlyCreates
    /\ Len(assigned) >= 2
    /\ Stored[2].created_at > Stored[1].created_at

\* C4: a stored item has completed_at = null exactly when completed = false
CompletedAtIffCompleted ==
    \A i \in 1 .. Len(Stored) :
        (Stored[i].completed_at = None) <=> ~Stored[i].completed

CompletedAtIffCompletedWitness ==
    /\ resp = Response("update", 200)
    /\ \E i, j \in 1 .. Len(Stored) :
        /\ Stored[i].completed /\ Stored[i].completed_at # None
        /\ ~Stored[j].completed /\ Stored[j].created_at < now

\* C5: in a step that keeps the items in place, completed_at changes only
\* when completed changes, and a pending item that becomes completed gets
\* the time of that step
CompletedAtOnlyOnTransition ==
    [][LET old == Stored
           new == StoredNext
       IN  (Len(new) = Len(old) /\ \A i \in 1 .. Len(old) : new[i].id = old[i].id)
           => \A i \in 1 .. Len(old) :
                /\ new[i].completed_at # old[i].completed_at
                     => new[i].completed # old[i].completed
                /\ (~old[i].completed /\ new[i].completed)
                     => new[i].completed_at = Some(now)]_vars

CompletedAtOnlyOnTransitionWitness ==
    /\ resp = Response("update", 200)
    /\ \E i \in 1 .. Len(Stored) :
        /\ Stored[i].completed
        /\ Stored[i].completed_at # None
        /\ Stored[i].completed_at # Some(now)

\* the status of every request that must fail on the stored collection
FailuresAnswered ==
    LET todos == Stored
    IN  /\ \A todo_id \in IdInputs \ Ids(todos) :
            /\ get_status(todos, todo_id) = 404
            /\ delete_status(todos, todo_id) = 404
            /\ \A patch \in Patches :
                 ~OutOfRange(patch.group) => update_status(todos, todo_id, patch) = 404
        /\ \A todo \in CreateBodies :
            OutOfRange(todo.group) => create_status(todo) = 422
        /\ \A todo_id \in IdInputs, patch \in Patches :
            OutOfRange(patch.group) => update_status(todos, todo_id, patch) = 422

\* C6: get, update and delete of an id that is not stored answer 404, create
\* and update with a group outside [1,9] answer 422, and the file is the
\* same after every request answered 404 or 422
FailedRequestsChangeNothing ==
    /\ []FailuresAnswered
    /\ [][resp'.status \in {404, 422} => file' = file]_vars

FailedRequestsChangeNothingWitness ==
    /\ resp = Response("update", 422)
    /\ Len(Stored) = 2
    /\ Stored[1].completed

\* the stored collection after update_todo(todo_id, patch) has saved
AfterUpdate(todos, todo_id, patch) ==
    load_from(save_todos(updated(todos, FirstIndex(todos, todo_id), patch)))

\* C7: an update that succeeds writes the fields its patch carries and
\* nothing else: id, created_at and the fields the patch leaves out keep
\* their values (completed_at too, unless the patch carries completed), the
\* item keeps its place and the other items are as they were
UpdateFrame ==
    LET todos == Stored
    IN  \A todo_id \in IdInputs, patch \in Patches :
            update_status(todos, todo_id, patch) = 200 =>
                LET after == AfterUpdate(todos, todo_id, patch)
                    i == CHOOSE k \in 1 .. Len(todos) : todos[k].id = todo_id
                    old == todos[i]
                    new == after[i]
                IN  /\ Len(after) = Len(todos)
                    /\ \A j \in 1 .. Len(todos) : j # i => after[j] = todos[j]
                    /\ new.id = old.id
                    /\ new.created_at = old.created_at
                    /\ new.title = IF patch.title = None THEN old.title ELSE patch.title[1]
                    /\ new.description =
                         IF patch.description = None THEN old.description
                         ELSE patch.description
                    /\ new.group = IF patch.group = None THEN old.group ELSE patch.group[1]
                    /\ new.completed =
                         IF patch.completed = None THEN old.completed
                         ELSE patch.completed[1]
                    /\ patch.completed = None => new.completed_at = old.completed_at

UpdateFrameWitness ==
    /\ resp = Response("update", 200)
    /\ Len(Stored) = 2
    /\ Stored[1].description = Some("d") /\ Stored[1].group = GroupMax
    /\ Stored[2].description = None /\ Stored[2].group = GroupMin
    /\ Stored[2].title = <<"B", "B">> /\ Stored[2].completed

\* C8: a delete of a stored id leaves the store without the item of that id
\* (a get of the id then answers 404) and with every other item, unchanged
\* and in the same order
DeleteFrame ==
    [][resp' = Response("delete", 200) =>
        LET old == Stored
            new == StoredNext
        IN  \A todo_id \in Ids(old) :
                delete_todo(todo_id) =>
                    /\ get_status(new, todo_id) = 404
                    /\ \E i \in 1 .. Len(old) :
                         /\ old[i].id = todo_id
                         /\ new = SubSeq(old, 1, i - 1) \o SubSeq(old, i + 1, Len(old))]_vars

DeleteFrameWitness ==
    /\ resp = Response("delete", 200)
    /\ Len(Stored) = 1
    /\ Stored[1].id = 2
    /\ Stored[1].completed

\* C9: when the loads of two requests both come before either save, the
\* store holds, once both saves have returned, exactly the list of the save
\* that returned last
LastSaveWins ==
    Len(race.done) = 2 => Stored = out[race.done[2]]

\* two creates raced, both have returned, and the store holds the one item
\* of the later save: the item of the earlier save is gone
LostUpdateReached ==
    /\ Len(race.done) = 2
    /\ \A w \in Workers : pc[w] = "idle" /\ req[w].op = "create"
    /\ loc[1] = <<>> /\ loc[2] = <<>>
    /\ Stored = out[race.done[2]]
    /\ Len(Stored) = 1
    /\ Stored # out[race.done[1]]

\* C10: a load returns the list of the latest save that has returned or the
\* list of a save that is under way, never anything else
LoadSeesWholeStore ==
    [][\A w \in Workers :
        (pc[w] = "idle" /\ pc'[w] = "loaded")
            => loc'[w] \in {committed} \cup {out[v] : v \in {u \in Workers : pc[u] = "opened"}}]_vars

\* the store is there and holds a list of todo items and nothing else
WellFormedStore ==
    /\ exists
    /\ LET r == json_load(file)
       IN  /\ r.ok
           /\ isinstance_list(r.data)
           /\ \A i \in 1 .. Len(r.data.list) : IsTodoItem(r.data.list[i])

\* C11: when the store is absent or is not a well-formed list of items, load
\* raises nothing and returns the empty list
LoadDegradesToEmpty ==
    (resp.op = "list" /\ ~WellFormedStore)
        => (listing.error = "" /\ Len(listing.todos) = 0)

\* the cases where load does degrade: text that is not JSON, JSON that is not
\* a list, no file
LoadDegradesReached ==
    /\ resp = Response("list", 200)
    /\ listing = NoListing
    /\ \/ ~exists /\ file = <<Punct("["), Punct("1"), Punct("]")>>
       \/ exists /\ file = <<Punct("{"), Punct("}")>>
       \/ exists /\ file = <<Punct("["), Punct("{")>>

\* how often x occurs in a sequence
Count(seq, x) == Cardinality({i \in 1 .. Len(seq) : seq[i] = x})

\* every item of b occurs in a as often as in b, and a holds nothing else
IsPermutation(a, b) ==
    /\ Len(a) = Len(b)
    /\ \A i \in 1 .. Len(b) : Count(a, b[i]) = Count(b, b[i])

\* C12: for each of the six sort fields and both orders, sorted raises no
\* error on the stored collection and returns a permutation of it, items with
\* a null completed_at included; so does every answer of GET /todos/sorted
\* to a valid request
SortedIsPermutation ==
    /\ \A sort_by \in {"id", "title", "created_at", "completed", "completed_at", "group"},
          order \in {"asc", "desc"} :
            LET result == sorted_todos(Stored, sort_by, order = "desc")
            IN  /\ sorted_status(sort_by, order) = 200
                /\ result.error = ""
                /\ IsPermutation(result.todos, Stored)
    /\ resp.op = "sorted" =>
            /\ resp.status \in {200, 400}
            /\ resp.status = 200 =>
                  (listing.error = "" /\ IsPermutation(listing.todos, Stored))

SortedIsPermutationWitness ==
    /\ resp = Response("sorted", 200)
    /\ Len(Stored) = 2
    /\ Stored[1].completed_at # None
    /\ Stored[2].completed_at = None
    /\ listing.todos = <<Stored[2], Stored[1]>>

\* r holds the items of todos whose group is g, in their order in todos
IsGroupOf(r, todos, g) ==
    LET idx == {i \in 1 .. Len(todos) : todos[i].group = g}
    IN  /\ Len(r) = Cardinality(idx)
        /\ \A i \in idx : r[Cardinality({j \in idx : j <= i})] = todos[i]

\* C13: filter_by_group is refused for a group outside [1,9]; for a group in
\* [1,9] it returns the stored items of that group in stored order, which is
\* the empty list when there is none
GroupFilterExact ==
    /\ \A g \in GroupIdInputs : (g < 1 \/ g > 9) => by_group_status(g) = 400
    /\ \A g \in 1 .. 9 :
          /\ by_group_status(g) = 200
          /\ IsGroupOf(filtered(Stored, g), Stored, g)
          /\ (\A i \in 1 .. Len(Stored) : Stored[i].group # g) => filtered(Stored, g) = <<>>
    /\ resp = Response("group", 200) =>
          /\ listing.error = ""
          /\ \E g \in 1 .. 9 : IsGroupOf(listing.todos, Stored, g)

GroupFilterExactWitness ==
    /\ resp = Response("group", 200)
    /\ Len(Stored) = 2
    /\ Stored[1].group # Stored[2].group
    /\ listing.todos = <<Stored[2]>>

\* C14: sorted by completed_at puts the items with a null completed_at before
\* all others when the order is asc and behind all others when it is desc
NullsFirstAscLastDesc ==
    \A order \in {"asc", "desc"} :
        LET r == sorted_todos(Stored, "completed_at", order = "desc").todos
        IN  \A i, j \in 1 .. Len(r) :
                (r[i].completed_at = None /\ r[j].completed_at # None)
                    => (IF order = "asc" THEN i < j ELSE i > j)
====
